---- MODULE Spec2Model ----
(***************************************************************************)
(* Model of libselinux-jni.c: the JNI binding of fgetfilecon, fsetfilecon, *)
(* getfilecon, lgetfilecon, setfilecon, lsetfilecon, is_selinux_enabled    *)
(* and security_getenforce.                                                *)
(*                                                                         *)
(* Each calling thread runs one exported function at a time.  Its errno,   *)
(* its JNIEnv pending-exception slot and its buffers are thread-local; the *)
(* function-local statics that cache the class, field and constructor      *)
(* handles are shared by all threads and are read and written without any  *)
(* synchronization.  The native library and the Java runtime are the       *)
(* environment: every outcome they can produce is a choice of the action   *)
(* that calls them.                                                        *)
(***************************************************************************)
EXTENDS Integers, Sequences, FiniteSets, TLC

(***************************************************************************)
(* Bounds of the model.                                                    *)
(***************************************************************************)
\* most invocations of the native function by one TEMP_FAILURE_RETRY
MaxAttempts == 3
\* most exported functions one thread calls one after the other
MaxOps == 2
\* longest managed byte array given to the marshaling functions
MaxLen == 3
\* largest byte value in those arrays (0 is the native terminator)
MaxByte == 2

(***************************************************************************)
(* errno values.                                                           *)
(***************************************************************************)
EINTR == 4
EIO == 5
\* some other error the native library may report (EACCES)
OtherErrnos == {13}
Errnos == {EINTR, EIO} \cup OtherErrnos

Threads == {"t1", "t2"}

FdOps == {"fgetfilecon", "fsetfilecon"}
GetOps == {"fgetfilecon", "getfilecon", "lgetfilecon"}
SetOps == {"fsetfilecon", "setfilecon", "lsetfilecon"}
RetryOps == GetOps \cup SetOps \cup {"security_getenforce"}
AllOps == RetryOps \cup {"is_selinux_enabled"}

(***************************************************************************)
(* Handles of the Java runtime.  A class handle is a reference: local      *)
(* (valid until the native method returns) or global.  Field and method    *)
(* handles are IDs.  n tells the global references of one class apart.     *)
(***************************************************************************)
NULL == [kind |-> "null", sym |-> "none", n |-> 0]
LocalRef(s) == [kind |-> "local", sym |-> s, n |-> 0]
GlobalRef(s, i) == [kind |-> "global", sym |-> s, n |-> i]
MemberID(s) == [kind |-> "id", sym |-> s, n |-> 0]

Slots == {"errnoExceptionClass", "fileDescriptorClass",
          "fileDescriptorDescriptorField", "constructor3", "constructor2"}

\* the symbol each static caches
SymbolOf(slot) ==
    CASE slot = "errnoExceptionClass" -> "android/system/ErrnoException"
      [] slot = "fileDescriptorClass" -> "java/io/FileDescriptor"
      [] slot = "fileDescriptorDescriptorField" -> "descriptor:I"
      [] slot = "constructor3" -> "<init>(Ljava/lang/String;ILjava/lang/Throwable;)V"
      [] slot = "constructor2" -> "<init>(Ljava/lang/String;I)V"

(***************************************************************************)
(* Exceptions.  id tells instances apart: "P" is the exception that was    *)
(* pending when the exported function was entered, cause is the id of the  *)
(* chained cause, form the number of constructor arguments (2 or 3).       *)
(***************************************************************************)
NoExc == [id |-> "none", type |-> "none", msg |-> "", code |-> 0, form |-> 0, cause |-> "none"]
PriorExc == [id |-> "P", type |-> "java/lang/Throwable", msg |-> "prior", code |-> 0,
             form |-> 0, cause |-> "none"]
OutOfMemory == [id |-> "oom", type |-> "java/lang/OutOfMemoryError", msg |-> "", code |-> 0,
                form |-> 0, cause |-> "none"]
\* NewObject(exceptionClass, constructor, detailMessage, error [, cause])
ErrnoException(m, e, f, c) ==
    [id |-> "new", type |-> "android/system/ErrnoException", msg |-> m, code |-> e,
     form |-> f, cause |-> c]

(***************************************************************************)
(* Byte arrays and native strings are sequences of bytes.                  *)
(***************************************************************************)
Bytes == 0..MaxByte

RECURSIVE SeqsUpTo(_)
SeqsUpTo(n) ==
    IF n = 0 THEN {<<>>}
    ELSE LET S == SeqsUpTo(n - 1)
         IN  S \cup {Append(s, b) : s \in {x \in S : Len(x) = n - 1}, b \in Bytes}

\* the managed byte arrays of at most MaxLen bytes
Buffers == SeqsUpTo(MaxLen)

mallocStringShortCopy(javaBytes) ==
    LET length == Len(javaBytes)
    IN  [i \in 1..(length + 1) |-> IF i < length THEN javaBytes[i] ELSE 0]

\* malloc(length + 1); memcpy(string, bytes, length); string[length] = '\0'
mallocStringFromBytes(javaBytes) ==
    LET length == Len(javaBytes)
    IN  [i \in 1..(length + 1) |-> IF i <= length THEN javaBytes[i] ELSE 0]

\* the number of bytes before the first terminator
strlen(string) ==
    (CHOOSE i \in 1..Len(string) :
        string[i] = 0 /\ \A j \in 1..(i - 1) : string[j] # 0) - 1

\* NewByteArray(strlen(string)); SetByteArrayRegion(javaBytes, 0, javaLength, string)
newBytesFromString(string) ==
    LET length == strlen(string)
    IN  [i \in 1..length |-> string[i]]

(***************************************************************************)
(* Results of the exported functions.                                      *)
(***************************************************************************)
NoResult == [kind |-> "none", bytes |-> <<>>, bool |-> FALSE]
VoidResult == [kind |-> "void", bytes |-> <<>>, bool |-> FALSE]
NullResult == [kind |-> "null", bytes |-> <<>>, bool |-> FALSE]
BytesResult(b) == [kind |-> "bytes", bytes |-> b, bool |-> FALSE]
BoolResult(v) == [kind |-> "bool", bytes |-> <<>>, bool |-> v]

(***************************************************************************)
(* State.                                                                  *)
(***************************************************************************)
VARIABLES
    th,        \* th[t]: the call in progress on thread t (see InitThread)
    cache,     \* the function-local statics: cache[slot] is a handle or NULL
    lookups,   \* lookups[slot]: reflective lookups made for the slot's symbol
    writes,    \* writes[slot][t]: assignments thread t made to the static
    globals,   \* globals[slot]: global references created for the slot's class
    failed,    \* failed[slot]: lookups in which the runtime returned NULL
    proc,      \* "running", "aborted" (abort()) or "crashed" (invalid access)
    mB,        \* marshaling round trip: the managed byte array
    mString,   \* marshaling round trip: the native string made of it
    mBack,     \* marshaling round trip: the byte array made of the string
    mpc        \* marshaling round trip: "in", "native" or "back"

vars == <<th, cache, lookups, writes, globals, failed, proc, mB, mString, mBack, mpc>>
cacheVars == <<cache, lookups, writes, globals, failed>>
marshalVars == <<mB, mString, mBack, mpc>>

InputNames == {"path", "context"}

InitThread ==
    [pc |-> "idle",          \* position in the exported function
     op |-> "none",          \* the exported function
     done |-> 0,             \* exported functions this thread has returned from
     errno |-> 0,            \* the thread's errno
     pending |-> NoExc,      \* the JNIEnv's pending-exception slot
     entry |-> NoExc,        \* the exception pending at entry
     javaPath |-> <<>>,      \* the managed arguments
     javaContext |-> <<>>,
     inb |-> [b \in InputNames |-> [st |-> "none", data |-> <<>>]],
                             \* malloc'ed input strings: none, live, freed, double
     outb |-> <<>>,          \* buffers the native library produced: <<state, string>>
     context |-> 0,          \* security_context_t context: index in outb, 0 is NULL
     rc |-> 0,               \* _rc of the last native call
     hist |-> <<>>,          \* outcome <<rc, errno set (0: untouched)>> of each native call
     error |-> 0,            \* int error = errno in throwErrnoException
     k |-> "none",           \* where getErrnoExceptionClass returns to
     hand |-> [s \in Slots |-> NULL],   \* handles the call has obtained
     log |-> <<>>,           \* the steps of the call, in order
     nThrow |-> 0,           \* calls of Throw with an exception object
     nClear |-> 0,           \* times the entry exception was cleared from the slot
     result |-> NoResult]    \* the value returned

Init ==
    /\ th = [t \in Threads |-> InitThread]
    /\ cache = [s \in Slots |-> NULL]
    /\ lookups = [s \in Slots |-> 0]
    /\ writes = [s \in Slots |-> [t \in Threads |-> 0]]
    /\ globals = [s \in Slots |-> 0]
    /\ failed = [s \in Slots |-> 0]
    /\ proc = "running"
    /\ mB = <<>>
    /\ mString = <<>>
    /\ mBack = <<>>
    /\ mpc = "off"


(***************************************************************************)
(* Inputs and environment.                                                 *)
(***************************************************************************)
\* managed byte arrays the callers pass as path and context
ArgBuffers == {<<>>, <<1, 0>>}
\* the contexts the native library returns, as terminated native strings
Labels == {<<0>>, <<2, 1, 0>>}

PathOps == {"getfilecon", "lgetfilecon", "setfilecon", "lsetfilecon"}
ContextArgOps == SetOps

\* the inputs each exported function marshals, in the order it allocates them
Inputs(op) ==
    CASE op = "fsetfilecon" -> <<"context">>
      [] op \in {"getfilecon", "lgetfilecon"} -> <<"path">>
      [] op \in {"setfilecon", "lsetfilecon"} -> <<"path", "context">>
      [] OTHER -> <<>>

\* the flag the entry points pass to doGetfilecon and doSetfilecon
isL(op) == op \in {"lgetfilecon", "lsetfilecon"}

\* the native function inside TEMP_FAILURE_RETRY
NativeFunction(op) ==
    CASE op \in {"getfilecon", "lgetfilecon"} ->
             IF isL(op) THEN "lgetfilecon" ELSE "getfilecon"
      [] op \in {"setfilecon", "lsetfilecon"} ->
             IF isL(op) THEN "lsetfilecon" ELSE "setfilecon"
      [] OTHER -> op

\* the functionName given to throwErrnoException
FunctionName(op) ==
    CASE op \in {"getfilecon", "lgetfilecon"} ->
             IF isL(op) THEN "lgetfilecon" ELSE "getfilecon"
      [] op \in {"setfilecon", "lsetfilecon"} ->
             IF isL(op) THEN "lsetfilecon" ELSE "setfilecon"
      [] OTHER -> op

\* What one invocation of the native function can do: <<rc, e>>, where e is
\* the value it stores in errno and 0 says that it leaves errno alone.  A
\* failure (rc = -1) stores an error; a success leaves errno alone or stores
\* the error of a call it made on the way; security_getenforce can also fail
\* without storing an error, and so can the functions that hand out a
\* context, whose callers look at errno alone.
Outcomes(op) ==
    IF op = "security_getenforce"
    THEN {<<r, e>> : r \in {-1, 0, 1}, e \in {0} \cup Errnos}
    ELSE {<<-1, e>> : e \in Errnos} \cup {<<0, e>> : e \in {0} \cup Errnos}
         \cup (IF op \in GetOps THEN {<<-1, 0>>} ELSE {})

AllOutcomes == {<<r, e>> : r \in {-1, 0, 1}, e \in {0} \cup Errnos}

Running == proc = "running"

FirstPc(op) ==
    CASE op \in FdOps -> "fld"
      [] op = "is_selinux_enabled" -> "enabled"
      [] op = "security_getenforce" -> "retry"
      [] OTHER -> "prepare"

(***************************************************************************)
(* free and freecon.                                                       *)
(***************************************************************************)
\* free(p) of a malloc'ed input string
free(b) ==
    [st |-> CASE b.st = "live" -> "freed"
              [] b.st = "freed" -> "double"
              [] OTHER -> "invalid",
     data |-> <<>>]

FreeAll(inb, names) ==
    [b \in InputNames |->
        IF \E i \in 1..Len(names) : names[i] = b THEN free(inb[b]) ELSE inb[b]]

\* freecon(context) of a buffer of the native library
freecon(outb, context) ==
    IF context = 0 THEN outb
    ELSE [outb EXCEPT ![context] =
             <<IF @[1] = "live" THEN "freecon" ELSE "double", @[2]>>]

(***************************************************************************)
(* A managed caller enters an exported function.  errno holds whatever the *)
(* thread's earlier calls left, and an exception may be pending.           *)
(***************************************************************************)
Begin(t, ops, errs, pends, bufs) ==
    /\ Running
    /\ th[t].pc = "idle"
    /\ th[t].done < MaxOps
    /\ \E o \in ops, e \in errs, p \in pends :
       \E jp \in (IF o \in PathOps THEN bufs ELSE {<<>>}),
          jc \in (IF o \in ContextArgOps THEN bufs ELSE {<<>>}) :
          th' = [th EXCEPT ![t] =
                    [InitThread EXCEPT !.pc = FirstPc(o), !.op = o,
                                       !.done = th[t].done, !.errno = e,
                                       !.pending = p, !.entry = p,
                                       !.javaPath = jp, !.javaContext = jc]]
    /\ UNCHANGED <<cacheVars, proc, marshalVars>>

(***************************************************************************)
(* findClass, findField, findMethod: the handle to cache, or abort().      *)
(***************************************************************************)
findClassLocal(localClass, globalClass) ==
    [abort |-> localClass = NULL \/ globalClass = NULL, value |-> localClass]

findClassNoAbort(localClass, globalClass) ==
    [abort |-> FALSE, value |-> IF localClass = NULL THEN NULL ELSE globalClass]

\* localClass is what FindClass returned, globalClass what NewGlobalRef did
findClass(localClass, globalClass) ==
    [abort |-> localClass = NULL \/ globalClass = NULL, value |-> globalClass]

\* field is what GetFieldID returned
findField(field) == [abort |-> field = NULL, value |-> field]

\* method is what GetMethodID returned
findMethod(method) == [abort |-> method = NULL, value |-> method]

\* the thread stores the handle in the static, or the process aborts; null
\* says that the runtime returned NULL, made that a global reference was made
Store(t, slot, found, null, made, next) ==
    /\ lookups' = [lookups EXCEPT ![slot] = @ + 1]
    /\ failed' = IF null THEN [failed EXCEPT ![slot] = @ + 1] ELSE failed
    /\ globals' = IF made THEN [globals EXCEPT ![slot] = @ + 1] ELSE globals
    /\ IF found.abort
       THEN /\ proc' = "aborted"
            /\ UNCHANGED <<th, cache, writes>>
       ELSE /\ cache' = [cache EXCEPT ![slot] = found.value]
            /\ writes' = [writes EXCEPT ![slot][t] = @ + 1]
            /\ th' = [th EXCEPT ![t] = next]
            /\ UNCHANGED proc

\* FindClass and NewGlobalRef: each returns its reference or NULL
ClassLookup(t, slot, next) ==
    \E localClass \in {NULL, LocalRef(SymbolOf(slot))} :
    \E globalClass \in {NULL, GlobalRef(SymbolOf(slot), globals[slot] + 1)} :
        /\ (localClass = NULL => globalClass = NULL)
        /\ Store(t, slot, findClass(localClass, globalClass),
                 globalClass = NULL, globalClass # NULL, next)


\* GetFieldID and GetMethodID: the ID or NULL
MemberLookup(t, slot, found, next) ==
    Store(t, slot, found, found.value = NULL, FALSE, next)

(***************************************************************************)
(* The getters of the cached handles.  The test of the static, the         *)
(* assignment to it and the read that returns it are separate steps:       *)
(* other threads run between them.                                         *)
(***************************************************************************)
CachedNever(slot) == FALSE

CachedClassesOnly(slot) == cache[slot] # NULL /\ cache[slot].kind = "global"

\* if (!errnoExceptionClass) and the like: the static holds a handle
Cached(slot) == cache[slot] # NULL

\* getFileDescriptorClass, called by getFileDescriptorDescriptorField
getFileDescriptorClass(t) ==
    LET r == th[t]
        slot == "fileDescriptorClass"
    IN  /\ Running
        /\ \/ /\ r.pc = "fdcls"
              /\ th' = [th EXCEPT ![t] =
                    IF Cached(slot)
                    THEN [r EXCEPT !.pc = "fld_find", !.hand[slot] = cache[slot]]
                    ELSE [r EXCEPT !.pc = "fdcls_find"]]
              /\ UNCHANGED <<cacheVars, proc>>
           \/ /\ r.pc = "fdcls_find"
              /\ ClassLookup(t, slot, [r EXCEPT !.pc = "fdcls_ret"])
           \/ /\ r.pc = "fdcls_ret"
              /\ th' = [th EXCEPT ![t] =
                    [r EXCEPT !.pc = "fld_find", !.hand[slot] = cache[slot]]]
              /\ UNCHANGED <<cacheVars, proc>>
        /\ UNCHANGED marshalVars

getFieldWithoutClass(t) ==
    LET r == th[t]
        slot == "fileDescriptorDescriptorField"
    IN  /\ Running
        /\ \/ /\ r.pc = "fld"
              /\ th' = [th EXCEPT ![t] =
                    IF Cached(slot)
                    THEN [r EXCEPT !.pc = "prepare", !.hand[slot] = cache[slot]]
                    ELSE [r EXCEPT !.pc = "fld_find"]]
              /\ UNCHANGED <<cacheVars, proc>>
           \/ /\ r.pc = "fld_find"
              /\ \E field \in {NULL, MemberID(SymbolOf(slot))} :
                    MemberLookup(t, slot, findField(field),
                        [r EXCEPT !.pc = "prepare", !.hand[slot] = field])
        /\ UNCHANGED marshalVars

\* getFileDescriptorDescriptorField, called by fgetfilecon and fsetfilecon
getFileDescriptorDescriptorField(t) ==
    LET r == th[t]
        slot == "fileDescriptorDescriptorField"
    IN  /\ Running
        /\ \/ /\ r.pc = "fld"
              /\ th' = [th EXCEPT ![t] =
                    IF Cached(slot)
                    THEN [r EXCEPT !.pc = "prepare", !.hand[slot] = cache[slot]]
                    ELSE [r EXCEPT !.pc = "fdcls"]]
              /\ UNCHANGED <<cacheVars, proc>>
           \/ /\ r.pc = "fld_find"
              /\ \E field \in {NULL, MemberID(SymbolOf(slot))} :
                    MemberLookup(t, slot, findField(field),
                        [r EXCEPT !.pc = "prepare", !.hand[slot] = field])
        /\ UNCHANGED marshalVars

\* getErrnoExceptionClass, called three times by throwErrnoException; k is
\* the place it returns to
getErrnoExceptionClass(t) ==
    LET r == th[t]
        slot == "errnoExceptionClass"
    IN  /\ Running
        /\ \/ /\ r.pc = "exc_cls"
              /\ th' = [th EXCEPT ![t] =
                    IF Cached(slot)
                    THEN [r EXCEPT !.pc = r.k, !.hand[slot] = cache[slot]]
                    ELSE [r EXCEPT !.pc = "exc_find"]]
              /\ UNCHANGED <<cacheVars, proc>>
           \/ /\ r.pc = "exc_find"
              /\ ClassLookup(t, slot, [r EXCEPT !.pc = "exc_ret"])
           \/ /\ r.pc = "exc_ret"
              /\ th' = [th EXCEPT ![t] =
                    [r EXCEPT !.pc = r.k, !.hand[slot] = cache[slot]]]
              /\ UNCHANGED <<cacheVars, proc>>
        /\ UNCHANGED marshalVars

\* throwErrnoException up to the call of throwException: the two constructors
throwErrnoException(t) ==
    LET r == th[t]
    IN  /\ Running
        /\ \/ /\ r.pc = "ctor3"
              /\ th' = [th EXCEPT ![t] =
                    IF Cached("constructor3")
                    THEN [r EXCEPT !.pc = "ctor2"]
                    ELSE [r EXCEPT !.pc = "exc_cls", !.k = "ctor3_find"]]
              /\ UNCHANGED <<cacheVars, proc>>
           \/ /\ r.pc = "ctor3_find"
              /\ \E method \in {NULL, MemberID(SymbolOf("constructor3"))} :
                    MemberLookup(t, "constructor3", findMethod(method),
                        [r EXCEPT !.pc = "ctor2"])
           \/ /\ r.pc = "ctor2"
              /\ th' = [th EXCEPT ![t] =
                    IF Cached("constructor2")
                    THEN [r EXCEPT !.pc = "exc_cls", !.k = "throw"]
                    ELSE [r EXCEPT !.pc = "exc_cls", !.k = "ctor2_find"]]
              /\ UNCHANGED <<cacheVars, proc>>
           \/ /\ r.pc = "ctor2_find"
              /\ \E method \in {NULL, MemberID(SymbolOf("constructor2"))} :
                    MemberLookup(t, "constructor2", findMethod(method),
                        [r EXCEPT !.pc = "exc_cls", !.k = "throw"])
        /\ UNCHANGED marshalVars


(***************************************************************************)
(* TEMP_FAILURE_RETRY(exp): errno = 0, then exp is evaluated again as long *)
(* as errno is EINTR after it.                                             *)
(***************************************************************************)
RetryAroundMarshaling(t, env) ==
    LET r == th[t]
    IN  /\ Running
        /\ \/ /\ r.pc = "retry"
              /\ th' = [th EXCEPT ![t] =
                    [r EXCEPT !.pc = "call", !.errno = 0,
                              !.log = Append(@, "errno=0")]]
           \/ /\ r.pc = "call"
              /\ Len(r.hist) < MaxAttempts
              /\ \E o \in env \cap Outcomes(r.op) :
                 \E label \in (IF r.op \in GetOps /\ o[1] >= 0 THEN Labels ELSE {<<>>}) :
                    LET errno1 == IF o[2] = 0 THEN r.errno ELSE o[2]
                        made == r.op \in GetOps /\ o[1] >= 0
                    IN  th' = [th EXCEPT ![t] =
                            [r EXCEPT
                               !.rc = o[1],
                               !.errno = errno1,
                               !.hist = Append(@, <<NativeFunction(r.op), o[1], o[2]>>),
                               !.log = Append(@, "call"),
                               !.outb = IF made THEN Append(@, <<"live", label>>) ELSE @,
                               !.context = IF made THEN Len(r.outb) + 1 ELSE @,
                               !.pc = IF errno1 # EINTR THEN "after"
                                      ELSE IF Inputs(r.op) = <<>> THEN "call"
                                      ELSE "prepare"]]
        /\ UNCHANGED <<cacheVars, proc, marshalVars>>

\* errno = 0; do { _rc = (exp); } while (errno == EINTR)
TEMP_FAILURE_RETRY(t, env) ==
    LET r == th[t]
    IN  /\ Running
        /\ \/ /\ r.pc = "retry"
              /\ th' = [th EXCEPT ![t] =
                    [r EXCEPT !.pc = "call", !.errno = 0,
                              !.log = Append(@, "errno=0")]]
           \/ /\ r.pc = "call"
              /\ Len(r.hist) < MaxAttempts
              /\ \E o \in env \cap Outcomes(r.op) :
                 \E label \in (IF r.op \in GetOps /\ o[1] >= 0 THEN Labels ELSE {<<>>}) :
                    LET errno1 == IF o[2] = 0 THEN r.errno ELSE o[2]
                        made == r.op \in GetOps /\ o[1] >= 0
                    IN  th' = [th EXCEPT ![t] =
                            [r EXCEPT
                               !.rc = o[1],
                               !.errno = errno1,
                               !.hist = Append(@, <<NativeFunction(r.op), o[1], o[2]>>),
                               !.log = Append(@, "call"),
                               !.outb = IF made THEN Append(@, <<"live", label>>) ELSE @,
                               !.context = IF made THEN Len(r.outb) + 1 ELSE @,
                               !.pc = IF errno1 = EINTR THEN "call" ELSE "after"]]
        /\ UNCHANGED <<cacheVars, proc, marshalVars>>

(***************************************************************************)
(* The parts the exported functions share.                                 *)
(***************************************************************************)
\* char *string = mallocStringFromBytes(env, javaBytes), for each input
Marshal(r) ==
    LET names == Inputs(r.op)
        arg(b) == IF b = "path" THEN r.javaPath ELSE r.javaContext
    IN  [r EXCEPT
           !.inb = [b \in InputNames |->
                      IF \E i \in 1..Len(names) : names[i] = b
                      THEN [st |-> "live", data |-> mallocStringFromBytes(arg(b))]
                      ELSE @[b]],
           !.log = @ \o [i \in 1..Len(names) |-> "malloc"],
           !.pc = "retry"]

\* The inputs are marshaled.  malloc and GetByteArrayElements return NULL when
\* memory is short, and mallocStringFromBytes then copies from or into NULL.
Prepare(t, r) ==
    \E memory \in (IF Inputs(r.op) = <<>> THEN {"ok"} ELSE {"ok", "short"}) :
        IF memory = "ok"
        THEN th' = [th EXCEPT ![t] = Marshal(r)] /\ UNCHANGED proc
        ELSE proc' = "crashed" /\ UNCHANGED th

ReleaseUnlessFailed(r) ==
    IF r.errno # 0 THEN r
    ELSE [r EXCEPT !.inb = FreeAll(@, Inputs(r.op)),
                   !.log = @ \o [i \in 1..Len(Inputs(r.op)) |-> "free"]]

\* free(...) of each input
Release(r) ==
    [r EXCEPT !.inb = FreeAll(@, Inputs(r.op)),
              !.log = @ \o [i \in 1..Len(Inputs(r.op)) |-> "free"]]

\* if (errno) { throwErrnoException(env, functionName): int error = errno
Failed(r) == [r EXCEPT !.pc = "ctor3", !.error = r.errno, !.log = Append(@, "inspect")]

ReturnContextEarly(t, r) ==
    IF r.context = 0
    THEN /\ proc' = "crashed"
         /\ UNCHANGED th
    ELSE /\ \E javaBytes \in {"NULL", "array"} :
            th' = [th EXCEPT ![t] =
                [r EXCEPT
                   !.result = IF javaBytes = "NULL" THEN NullResult
                              ELSE BytesResult(newBytesFromString(r.outb[r.context][2])),
                   !.pending = IF javaBytes = "NULL" THEN OutOfMemory ELSE @,
                   !.outb = IF javaBytes = "NULL" THEN @ ELSE freecon(@, r.context),
                   !.log = @ \o <<"inspect", "NewByteArray", "freecon">>,
                   !.pc = "ret"]]
         /\ UNCHANGED proc

\* newBytesFromString(env, context); freecon(context); return javaContext
ReturnContext(t, r) ==
    IF r.context = 0
    THEN /\ proc' = "crashed"
         /\ UNCHANGED th
    ELSE /\ \E javaBytes \in {"NULL", "array"} :
            th' = [th EXCEPT ![t] =
                [r EXCEPT
                   !.result = IF javaBytes = "NULL" THEN NullResult
                              ELSE BytesResult(newBytesFromString(r.outb[r.context][2])),
                   !.pending = IF javaBytes = "NULL" THEN OutOfMemory ELSE @,
                   !.outb = freecon(@, r.context),
                   !.log = @ \o <<"inspect", "NewByteArray", "freecon">>,
                   !.pc = "ret"]]
         /\ UNCHANGED proc

(***************************************************************************)
(* The exported functions, without the steps modelled above.               *)
(***************************************************************************)
Java_me_zhanghai_android_libselinux_SeLinux_fgetfilecon(t) ==
    LET r == th[t]
    IN  /\ Running
        /\ r.op = "fgetfilecon"
        /\ \/ /\ r.pc = "prepare"
              /\ Prepare(t, r)
           \/ /\ r.pc = "after"
              /\ IF r.errno # 0
                 THEN th' = [th EXCEPT ![t] = Failed(r)] /\ UNCHANGED proc
                 ELSE ReturnContext(t, r)
        /\ UNCHANGED <<cacheVars, marshalVars>>

Java_me_zhanghai_android_libselinux_SeLinux_fsetfilecon(t) ==
    LET r == th[t]
    IN  /\ Running
        /\ r.op = "fsetfilecon"
        /\ \/ /\ r.pc = "prepare"
              /\ Prepare(t, r)
           \/ /\ r.pc = "after"
              /\ th' = [th EXCEPT ![t] =
                    IF r.errno # 0 THEN Failed(Release(r))
                    ELSE [Release(r) EXCEPT !.pc = "ret", !.result = VoidResult,
                                            !.log = Append(@, "inspect")]]
              /\ UNCHANGED proc
        /\ UNCHANGED <<cacheVars, marshalVars>>

\* getfilecon and lgetfilecon
doGetfilecon(t) ==
    LET r == th[t]
    IN  /\ Running
        /\ r.op \in {"getfilecon", "lgetfilecon"}
        /\ \/ /\ r.pc = "prepare"
              /\ Prepare(t, r)
           \/ /\ r.pc = "after"
              /\ IF r.errno # 0
                 THEN th' = [th EXCEPT ![t] = Failed(Release(r))] /\ UNCHANGED proc
                 ELSE ReturnContext(t, Release(r))
        /\ UNCHANGED <<cacheVars, marshalVars>>

\* setfilecon and lsetfilecon
doSetfilecon(t) ==
    LET r == th[t]
    IN  /\ Running
        /\ r.op \in {"setfilecon", "lsetfilecon"}
        /\ \/ /\ r.pc = "prepare"
              /\ Prepare(t, r)
           \/ /\ r.pc = "after"
              /\ th' = [th EXCEPT ![t] =
                    IF r.errno # 0 THEN Failed(Release(r))
                    ELSE [Release(r) EXCEPT !.pc = "ret", !.result = VoidResult,
                                            !.log = Append(@, "inspect")]]
              /\ UNCHANGED proc
        /\ UNCHANGED <<cacheVars, marshalVars>>

is_selinux_enabled_checked(t) ==
    LET r == th[t]
    IN  /\ Running
        /\ r.pc = "enabled"
        /\ \E enabled \in {-1, 0, 1} :
              th' = [th EXCEPT ![t] =
                  IF enabled < 0
                  THEN [r EXCEPT !.pc = "ctor3", !.rc = enabled, !.error = EIO]
                  ELSE [r EXCEPT !.pc = "ret", !.rc = enabled,
                                 !.result = BoolResult(enabled # 0)]]
        /\ UNCHANGED <<cacheVars, proc, marshalVars>>

Java_me_zhanghai_android_libselinux_SeLinux_is_1selinux_1enabled(t) ==
    LET r == th[t]
    IN  /\ Running
        /\ r.pc = "enabled"
        /\ \E enabled \in {-1, 0, 1} :
              th' = [th EXCEPT ![t] =
                  [r EXCEPT !.pc = "ret", !.rc = enabled,
                            !.result = BoolResult(enabled # 0)]]
        /\ UNCHANGED <<cacheVars, proc, marshalVars>>

\* security_getenforce: enforce is the _rc of TEMP_FAILURE_RETRY
Java_me_zhanghai_android_libselinux_SeLinux_security_1getenforce(t) ==
    LET r == th[t]
        enforce == r.rc
        errno1 == IF enforce = -1 /\ r.errno = 0 THEN EIO ELSE r.errno
    IN  /\ Running
        /\ r.op = "security_getenforce"
        /\ r.pc = "after"
        /\ th' = [th EXCEPT ![t] =
              IF errno1 # 0 THEN Failed([r EXCEPT !.errno = errno1])
              ELSE [r EXCEPT !.pc = "ret", !.result = BoolResult(enforce # 0),
                             !.log = Append(@, "inspect")]]
        /\ UNCHANGED <<cacheVars, proc, marshalVars>>

\* what the exported function returns after throwErrnoException
ReturnAfterThrow(r) ==
    CASE r.op \in GetOps -> NullResult
      [] r.op \in SetOps -> VoidResult
      [] OTHER -> BoolResult(r.rc # 0)

(***************************************************************************)
(* throwException.  NewStringUTF and NewObject return NULL, with an        *)
(* OutOfMemoryError pending, when the runtime cannot allocate; Throw of a  *)
(* NULL exception is outside the JNI contract: the runtime ignores it or   *)
(* the process dies.                                                       *)
(***************************************************************************)
throwException(t) ==
    LET r == th[t]
        functionName == FunctionName(r.op)
        error == r.error
        caught == r.pending # NoExc
        cause == IF caught THEN r.pending.id ELSE "none"
        form == IF cause # "none" THEN 3 ELSE 2
    IN  /\ Running
        /\ r.pc = "throw"
        /\ \E detailMessage \in {"NULL", functionName} :
           \E made \in BOOLEAN :
           \E thrown \in (IF made THEN {"set"} ELSE {"ignored", "crash"}) :
              LET exception == ErrnoException(detailMessage, error, form, cause)
                  log1 == (IF caught THEN <<"ExceptionClear">> ELSE <<>>)
                          \o <<"NewStringUTF">>
                          \o (IF detailMessage = "NULL" THEN <<"ExceptionClear">> ELSE <<>>)
                          \o <<IF form = 3 THEN "NewObject3" ELSE "NewObject2", "Throw",
                               "DeleteLocalRef">>
              IN  IF thrown = "crash"
                  THEN /\ proc' = "crashed"
                       /\ UNCHANGED th
                  ELSE /\ th' = [th EXCEPT ![t] =
                            [r EXCEPT
                               !.pending = IF made THEN exception ELSE OutOfMemory,
                               !.nClear = IF caught /\ r.pending = r.entry THEN @ + 1 ELSE @,
                               !.nThrow = IF made THEN @ + 1 ELSE @,
                               !.hand = [s \in Slots |->
                                           IF s \in {"constructor3", "constructor2"}
                                           THEN cache[s] ELSE @[s]],
                               !.log = @ \o log1,
                               !.result = ReturnAfterThrow(r),
                               !.pc = "ret"]]
                       /\ UNCHANGED proc
        /\ UNCHANGED <<cacheVars, marshalVars>>

\* the exported function returns to its managed caller
Return(t) ==
    /\ Running
    /\ th[t].pc = "ret"
    /\ th' = [th EXCEPT ![t] = [InitThread EXCEPT !.done = th[t].done + 1]]
    /\ UNCHANGED <<cacheVars, proc, marshalVars>>

(***************************************************************************)
(* The marshaling round trip of one byte array.                            *)
(***************************************************************************)
ToNativeString ==
    /\ mpc = "in"
    /\ mString' = mallocStringFromBytes(mB)
    /\ mpc' = "native"
    /\ UNCHANGED <<th, cacheVars, proc, mB, mBack>>

ToManagedBuffer ==
    /\ mpc = "native"
    /\ mBack' = newBytesFromString(mString)
    /\ mpc' = "back"
    /\ UNCHANGED <<th, cacheVars, proc, mB, mString>>

(***************************************************************************)
(* Specifications.                                                         *)
(***************************************************************************)
Step(t) ==
    \/ getFileDescriptorClass(t)
    \/ getFileDescriptorDescriptorField(t)
    \/ getErrnoExceptionClass(t)
    \/ throwErrnoException(t)
    \/ TEMP_FAILURE_RETRY(t, AllOutcomes)
    \/ Java_me_zhanghai_android_libselinux_SeLinux_fgetfilecon(t)
    \/ Java_me_zhanghai_android_libselinux_SeLinux_fsetfilecon(t)
    \/ doGetfilecon(t)
    \/ doSetfilecon(t)
    \/ Java_me_zhanghai_android_libselinux_SeLinux_is_1selinux_1enabled(t)
    \/ Java_me_zhanghai_android_libselinux_SeLinux_security_1getenforce(t)
    \/ throwException(t)
    \/ Return(t)

\* one thread calls the exported functions, one after the other
Next ==
    \/ Begin("t1", AllOps, {0} \cup Errnos, {NoExc, PriorExc}, ArgBuffers)
    \/ Step("t1")

Spec == Init /\ [][Next]_vars

\* the round trip of every byte array of at most MaxLen bytes
InitMarshal ==
    /\ th = [t \in Threads |-> InitThread]
    /\ cache = [s \in Slots |-> NULL]
    /\ lookups = [s \in Slots |-> 0]
    /\ writes = [s \in Slots |-> [t \in Threads |-> 0]]
    /\ globals = [s \in Slots |-> 0]
    /\ failed = [s \in Slots |-> 0]
    /\ proc = "running"
    /\ mB \in Buffers
    /\ mString = <<>>
    /\ mBack = <<>>
    /\ mpc = "in"

NextMarshal == ToNativeString \/ ToManagedBuffer

SpecMarshal == InitMarshal /\ [][NextMarshal]_vars


\* the exported functions the racing threads call: fsetfilecon uses every
\* cached handle when its native call fails
RaceOps == {"fsetfilecon", "security_getenforce"}
\* what their native calls do: fail with EIO or succeed
RaceOutcomes == {<<-1, EIO>>, <<0, 0>>}

StepRace(t) ==
    \/ getFileDescriptorClass(t)
    \/ getFileDescriptorDescriptorField(t)
    \/ getErrnoExceptionClass(t)
    \/ throwErrnoException(t)
    \/ TEMP_FAILURE_RETRY(t, RaceOutcomes)
    \/ Java_me_zhanghai_android_libselinux_SeLinux_fsetfilecon(t)
    \/ Java_me_zhanghai_android_libselinux_SeLinux_security_1getenforce(t)
    \/ throwException(t)
    \/ Return(t)

\* several threads call exported functions at the same time
NextRace ==
    \E t \in Threads :
        \/ Begin(t, RaceOps, {0}, {NoExc}, {<<1, 0>>})
        \/ StepRace(t)

SpecRace == Init /\ [][NextRace]_vars


(***************************************************************************)
(* Properties.                                                             *)
(***************************************************************************)
\* how often step x occurs in a log
Count(log, x) == Cardinality({i \in 1..Len(log) : log[i] = x})

\* C1: when the native call reports EINTR on N consecutive attempts and then
\* succeeds, the exported function leaves the retry loop after exactly N + 1
\* invocations of the native function, raises nothing and returns what a
\* success at the first attempt returns.
C1_RetryIsTransparent ==
    \A t \in Threads : \A N \in 0..(MaxAttempts - 1) :
        LET r == th[t]
            h == r.hist
        IN  ( /\ r.op \in RetryOps
              /\ Len(h) > N
              /\ \A i \in 1..N : h[i][2] = -1 /\ h[i][3] = EINTR
              /\ h[N + 1][2] >= 0
              /\ h[N + 1][3] = 0 )
            => /\ Len(h) = N + 1
               /\ r.pc # "call"
               /\ r.nThrow = 0
               /\ r.pc = "ret" =>
                    CASE r.op \in SetOps -> r.result = VoidResult
                      [] r.op \in GetOps ->
                            r.result \in {NullResult,
                                          BytesResult(newBytesFromString(r.outb[1][2]))}
                      [] OTHER -> r.result = BoolResult(h[N + 1][2] # 0)

\* C2: whenever the native call of getfilecon, lgetfilecon, setfilecon,
\* lsetfilecon, fgetfilecon or fsetfilecon fails leaving the error E, the
\* function raises exactly one ErrnoException whose message is the name of
\* the function invoked and whose code is E, and the native function called
\* is the no-follow variant exactly when the no-follow function was invoked.
C2_FailureNamesOperation ==
    \A t \in Threads :
        LET r == th[t]
            h == r.hist
            last == h[Len(h)]
        IN  ( /\ r.op \in GetOps \cup SetOps
              /\ r.pc = "ret"
              /\ Len(h) > 0
              /\ last[2] = -1
              /\ last[3] # 0 )
            => /\ r.nThrow = 1
               /\ r.pending.type = "android/system/ErrnoException"
               /\ r.pending.msg = r.op
               /\ r.pending.code = last[3]
               /\ \A i \in 1..Len(h) : h[i][1] = r.op

\* C3: every input string an exported function allocates is freed exactly
\* once before the function returns, whether the native call succeeds or
\* fails and however often it is retried: none is still allocated at the
\* return, none is freed twice.
C3_InputsFreedOnce ==
    \A t \in Threads :
        LET r == th[t]
            names == Inputs(r.op)
        IN  /\ \A b \in InputNames : r.inb[b].st \in {"none", "live", "freed"}
            /\ r.pc = "ret" /\ r.op # "none" =>
                  /\ \A b \in InputNames :
                        r.inb[b].st = IF \E i \in 1..Len(names) : names[i] = b
                                      THEN "freed" ELSE "none"
                  /\ Count(r.log, "malloc") = Len(names)
                  /\ Count(r.log, "free") = Len(names)

\* C3 happens: lsetfilecon returns after a retried native call that failed,
\* and both of its inputs are freed
C3_Witness ==
    \E t \in Threads :
        /\ th[t].pc = "ret"
        /\ th[t].op = "lsetfilecon"
        /\ Len(th[t].hist) >= 2
        /\ th[t].nThrow = 1
        /\ th[t].inb["path"].st = "freed"
        /\ th[t].inb["context"].st = "freed"

\* C4: every buffer the native library produced during fgetfilecon,
\* getfilecon or lgetfilecon, on any attempt and whatever errno is in the
\* end, is released with freecon exactly once before the function returns and
\* never with free.
C4_OutputsReleasedByFreecon ==
    \A t \in Threads :
        LET r == th[t]
        IN  /\ \A i \in 1..Len(r.outb) : r.outb[i][1] \in {"live", "freecon"}
            /\ r.pc = "ret" => \A i \in 1..Len(r.outb) : r.outb[i][1] = "freecon"


\* C5: when an exception P is pending at entry and the native call fails, the
\* exception raised has P as its cause and is made with the three-argument
\* constructor, P is cleared from the slot exactly once and before the new
\* exception is made, and the slot then holds the new exception; with nothing
\* pending at entry the two-argument constructor is used and there is no
\* cause.
C5_PendingBecomesCause ==
    \A t \in Threads :
        LET r == th[t]
            h == r.hist
            first(x) == CHOOSE i \in 1..Len(r.log) :
                            r.log[i] = x /\ \A j \in 1..(i - 1) : r.log[j] # x
        IN  ( /\ r.op \in RetryOps
              /\ r.pc = "ret"
              /\ Len(h) > 0
              /\ h[Len(h)][2] = -1 )
            => /\ r.pending.id = "new"
               /\ r.pending.type = "android/system/ErrnoException"
               /\ IF r.entry # NoExc
                  THEN /\ r.pending.cause = r.entry.id
                       /\ r.pending.form = 3
                       /\ r.nClear = 1
                       /\ Count(r.log, "NewObject3") = 1
                       /\ first("ExceptionClear") < first("NewObject3")
                  ELSE /\ r.pending.cause = "none"
                       /\ r.pending.form = 2
                       /\ r.nClear = 0

\* C6: security_getenforce returns true for the native mode 1 and false for
\* the mode 0, raising nothing, when errno is unset; it raises an
\* ErrnoException named security_getenforce with the code EIO for the mode -1
\* with errno unset, and with the code E unchanged when the native call
\* leaves errno = E.
C6_Getenforce ==
    \A t \in Threads :
        LET r == th[t]
            h == r.hist
            mode == h[Len(h)][2]
            set == {i \in 1..Len(h) : h[i][3] # 0}
            E == IF set = {} THEN 0
                 ELSE h[CHOOSE i \in set : \A j \in set : j <= i][3]
            raised(code) ==
                /\ r.nThrow = 1
                /\ r.pending.type = "android/system/ErrnoException"
                /\ r.pending.msg = "security_getenforce"
                /\ r.pending.code = code
        IN  (r.op = "security_getenforce" /\ r.pc = "ret")
            => CASE E # 0 -> raised(E)
                 [] E = 0 /\ mode = -1 -> raised(EIO)
                 [] OTHER -> /\ r.result = BoolResult(mode = 1)
                             /\ r.nThrow = 0
                             /\ r.pending = r.entry

\* C7: converting a managed byte array B, whatever its bytes, to a native
\* string and back yields B, and the native string has Len(B) + 1 bytes, the
\* last of which is the terminator.
C7_RoundTrip ==
    /\ mpc \in {"native", "back"} =>
          /\ Len(mString) = Len(mB) + 1
          /\ mString[Len(mString)] = 0
    /\ mpc = "back" => mBack = mB

\* C7 as amended: the round trip yields B when B holds no zero byte, and the
\* bytes of B before its first zero byte otherwise; the native string is B
\* followed by the terminator.
C7_RoundTripToFirstZero ==
    LET zeros == {i \in 1..Len(mB) : mB[i] = 0}
        cut == IF zeros = {} THEN Len(mB)
               ELSE (CHOOSE i \in zeros : \A j \in zeros : i <= j) - 1
    IN  /\ mpc \in {"native", "back"} =>
              /\ Len(mString) = Len(mB) + 1
              /\ mString[Len(mString)] = 0
              /\ \A i \in 1..Len(mB) : mString[i] = mB[i]
        /\ mpc = "back" =>
              /\ mBack = SubSeq(mB, 1, cut)
              /\ zeros = {} => mBack = mB

\* C7 happens: an array of MaxLen nonzero bytes has made the round trip
C7_Witness ==
    /\ mpc = "back"
    /\ Len(mB) = MaxLen
    /\ \A i \in 1..Len(mB) : mB[i] # 0
    /\ mBack = mB


ClassSlots == {"errnoExceptionClass", "fileDescriptorClass"}
FindPcs == {"fdcls_find", "fld_find", "exc_find", "ctor3_find", "ctor2_find"}

\* a handle of the slot's symbol that outlives the call that made it
ValidFor(slot, h) ==
    IF slot \in ClassSlots
    THEN h.kind = "global" /\ h.sym = SymbolOf(slot) /\ h.n \in 1..globals[slot]
    ELSE h = MemberID(SymbolOf(slot))

\* the assignments all threads made to the static
Written(slot) ==
    LET RECURSIVE Sum(_)
        Sum(T) == IF T = {} THEN 0
                  ELSE LET t == CHOOSE x \in T : TRUE
                       IN  writes[slot][t] + Sum(T \ {t})
    IN  Sum(Threads)

\* C8: under any interleaving of threads that make their first use of a cached
\* symbol at the same time, every handle a thread obtains from the cache and
\* uses is a non-null global handle (or ID) of that symbol, never a null or a
\* local one, whichever thread's handle ends up in the static.
C8_HandlesValid ==
    /\ \A s \in Slots : cache[s] = NULL \/ ValidFor(s, cache[s])
    /\ \A t \in Threads :
          LET r == th[t]
              got(s) == r.hand[s] # NULL
          IN  /\ \A s \in Slots : r.hand[s] = NULL \/ ValidFor(s, r.hand[s])
              /\ r.pc = "fld_find" => got("fileDescriptorClass")
              /\ r.pc = "prepare" /\ r.op \in FdOps => got("fileDescriptorDescriptorField")
              /\ r.pc \in {"ctor3_find", "ctor2_find", "throw"} => got("errnoExceptionClass")
              /\ r.pc = "ret" /\ r.error # 0 =>
                    /\ got("errnoExceptionClass")
                    /\ got("constructor3")
                    /\ got("constructor2")

\* C8 happens: two threads have both resolved and stored the exception class,
\* and one of them has thrown with the handle the other one stored
C8_Witness ==
    \E t \in Threads : \E u \in Threads \ {t} :
        /\ writes["errnoExceptionClass"][t] = 1
        /\ writes["errnoExceptionClass"][u] = 1
        /\ th[t].pc = "ret"
        /\ th[t].nThrow = 1
        /\ th[t].hand["errnoExceptionClass"] = cache["errnoExceptionClass"]
        /\ cache["fileDescriptorDescriptorField"] # NULL

\* C9: the static of a symbol is written at most once in every execution,
\* concurrent first use included, so its value never changes once it is set
\* and one global reference is created for the symbol.
C9_WrittenOnce ==
    \A s \in Slots : Written(s) <= 1 /\ globals[s] <= 1

\* C9 as amended: each thread writes the static of a symbol at most once, and
\* only after it found it empty; threads that make their first use at the
\* same time may each resolve the symbol and store a handle, every one a
\* valid handle of the symbol (one global reference for each such store of a
\* class, the same ID for a field or a constructor), and a static that was
\* written never holds NULL again.
C9_WrittenOncePerThread ==
    \A s \in Slots :
        /\ \A t \in Threads : writes[s][t] <= 1
        /\ Written(s) > 0 => cache[s] # NULL /\ ValidFor(s, cache[s])
        /\ Written(s) = 0 => cache[s] = NULL
        /\ s \in ClassSlots => globals[s] = Written(s)
        /\ lookups[s] <= Cardinality(Threads)

\* C9 happens: both threads have stored the exception class, the second store
\* replacing the first, and both have returned
C9_Witness ==
    /\ Written("errnoExceptionClass") = 2
    /\ cache["errnoExceptionClass"] = GlobalRef(SymbolOf("errnoExceptionClass"), 2)
    /\ \A t \in Threads : th[t].done >= 1

\* C10: when the lookup of a class, of its global reference, of the field or
\* of a constructor fails, the process aborts at once: the exported function
\* in progress is still inside the lookup and never returns, nothing is
\* thrown for it, and the static is never given a null or invalid handle.
C10_FailedLookupAborts ==
    /\ [](/\ (\E s \in Slots : failed[s] > 0) <=> proc = "aborted"
          /\ \A s \in Slots : Written(s) > 0 => ValidFor(s, cache[s])
          /\ proc = "aborted" =>
                \E t \in Threads : \E s \in Slots :
                    /\ failed[s] = 1
                    /\ cache[s] = NULL
                    /\ th[t].pc \in FindPcs
                    /\ th[t].nThrow = 0
                    /\ th[t].pending = th[t].entry
                    /\ th[t].result = NoResult)
    /\ [][proc # "aborted"]_vars

\* C10 happens: the lookup of the two-argument constructor has failed while
\* fsetfilecon was about to throw, and the process is aborted
C10_Witness ==
    /\ proc = "aborted"
    /\ failed["constructor2"] = 1
    /\ \E t \in Threads : th[t].pc = "ctor2_find" /\ th[t].op = "fsetfilecon"


\* thread t has found the static of the slot empty and is resolving its symbol
Resolving(t, slot) ==
    LET r == th[t]
        inClass == r.pc \in {"exc_cls", "exc_find", "exc_ret"}
    IN  CASE slot = "errnoExceptionClass" -> r.pc = "exc_find"
          [] slot = "fileDescriptorClass" -> r.pc = "fdcls_find"
          [] slot = "fileDescriptorDescriptorField" ->
                 r.pc \in {"fdcls", "fdcls_find", "fdcls_ret", "fld_find"}
          [] slot = "constructor3" ->
                 r.pc = "ctor3_find" \/ (inClass /\ r.k = "ctor3_find")
          [] slot = "constructor2" ->
                 r.pc = "ctor2_find" \/ (inClass /\ r.k = "ctor2_find")

\* C11: once a resolution of a symbol has completed and stored its handle, no
\* reflective lookup of that symbol is made any more, by any thread: the
\* number of lookups of the symbol does not grow once the static is set.
C11_NoLookupOnceStored ==
    [][\A s \in Slots : cache[s] # NULL => lookups'[s] = lookups[s]]_vars

\* C11 as amended: a call that tests the static after a handle was stored
\* makes no lookup and returns the cached handle.  A thread starts to resolve
\* a symbol only when it finds the static empty, every lookup is made by a
\* thread that found it empty, and so the lookups of a symbol are at most one
\* for each thread that made its first use before the first store; every
\* handle a getter hands out is the one in the static.
C11_NoLookupByLaterCalls ==
    [][\A s \in Slots :
          /\ \A t \in Threads :
                /\ (~Resolving(t, s) /\ Resolving(t, s)') => cache[s] = NULL
                /\ (th'[t].hand[s] # th[t].hand[s] /\ th'[t].hand[s] # NULL)
                      => th'[t].hand[s] = cache'[s]
          /\ lookups'[s] # lookups[s] =>
                /\ lookups'[s] = lookups[s] + 1
                /\ \E t \in Threads : Resolving(t, s) /\ writes[s][t] = 0
          /\ lookups'[s] <= Cardinality(Threads)]_vars

\* C11 happens: a thread has thrown with the exception class and the
\* constructors that the other thread resolved and stored, without a lookup
\* of its own
C11_Witness ==
    \E t \in Threads :
        /\ th[t].pc = "ret"
        /\ th[t].nThrow = 1
        /\ \A s \in {"errnoExceptionClass", "constructor3", "constructor2"} :
              /\ lookups[s] = 1
              /\ writes[s][t] = 0
              /\ th[t].hand[s] = cache[s]

\* C12: is_selinux_enabled raises nothing whatever the native function returns
\* (negative, zero or positive) and whatever errno is at entry: it returns a
\* boolean that is true exactly when the native result is nonzero, and the
\* pending-exception slot is as it was at entry.
C12_IsEnabledNeverRaises ==
    \A t \in Threads :
        LET r == th[t]
        IN  r.op = "is_selinux_enabled" =>
               /\ r.pc \in {"enabled", "ret"}
               /\ r.pending = r.entry
               /\ r.nThrow = 0
               /\ r.nClear = 0
               /\ r.error = 0
               /\ r.pc = "ret" => r.result = BoolResult(r.rc # 0)

\* C12 happens: the native function returned a negative value while errno was
\* set and an exception was pending at entry, and true is returned
C12_Witness ==
    \E t \in Threads :
        /\ th[t].op = "is_selinux_enabled"
        /\ th[t].pc = "ret"
        /\ th[t].rc = -1
        /\ th[t].errno # 0
        /\ th[t].entry = PriorExc
        /\ th[t].result = BoolResult(TRUE)

\* C13: errno is zero immediately before every invocation of the native
\* function, so the errno looked at after an invocation was set by that
\* invocation; an errno that was nonzero at entry never makes a function
\* raise when its native call succeeds without setting errno.
C13_ErrnoClearBeforeCall ==
    \A t \in Threads :
        LET r == th[t]
            h == r.hist
        IN  /\ r.pc = "call" => r.errno = 0
            /\ (r.pc \in {"call", "after"} /\ Len(h) > 0) => r.errno = h[Len(h)][3]
            /\ ( /\ r.pc = "ret"
                 /\ Len(h) > 0
                 /\ h[Len(h)][2] >= 0
                 /\ h[Len(h)][3] = 0 ) => r.nThrow = 0 /\ r.error = 0

\* the place of a step in the order malloc, errno = 0, call, free, inspect,
\* and then the steps of throwException or of the conversion of the result
Phase(x) ==
    CASE x = "malloc" -> 1
      [] x = "errno=0" -> 2
      [] x = "call" -> 3
      [] x = "free" -> 4
      [] x = "inspect" -> 5
      [] OTHER -> 6

\* C14: in every execution of a function that marshals inputs the steps occur
\* in this order: every input is allocated, once; the native function is
\* invoked one or more times by one loop that holds nothing but the call;
\* every input is freed, whatever the outcome; and only then errno is
\* inspected and an exception made.  No allocation and no release is repeated
\* by a retry, and the native function is never invoked with a freed input.
C14_StepsInOrder ==
    \A t \in Threads :
        LET r == th[t]
            names == Inputs(r.op)
            live == \A i \in 1..Len(names) : r.inb[names[i]].st = "live"
        IN  names # <<>> =>
               /\ \A i \in 1..Len(r.log) : \A j \in i..Len(r.log) :
                     Phase(r.log[i]) <= Phase(r.log[j])
               /\ Count(r.log, "malloc") <= Len(names)
               /\ Count(r.log, "free") <= Len(names)
               /\ Count(r.log, "errno=0") <= 1
               /\ Count(r.log, "inspect") <= 1
               /\ r.pc \in {"retry", "call"} => live
               /\ (Count(r.log, "call") > 0 /\ Count(r.log, "free") = 0) => live
               /\ Count(r.log, "inspect") = 1 =>
                     /\ Count(r.log, "malloc") = Len(names)
                     /\ Count(r.log, "free") = Len(names)
                     /\ Count(r.log, "call") = Len(r.hist)
                     /\ Len(r.hist) >= 1

\* C14 happens: getfilecon has returned after three invocations of the native
\* function, the last of which failed
C14_Witness ==
    \E t \in Threads :
        /\ th[t].op = "getfilecon"
        /\ th[t].pc = "ret"
        /\ Len(th[t].hist) = MaxAttempts
        /\ th[t].error # 0
        /\ th[t].inb["path"].st = "freed"


\* C15: every call of a function other than is_selinux_enabled whose native
\* call fails returns with the ErrnoException that carries the error code
\* pending, also when NewStringUTF or NewObject fail while it is being made;
\* the function never returns after a native failure with no such exception
\* pending, and Throw is never given a null exception.
C15_FailureAlwaysReported ==
    \A t \in Threads :
        LET r == th[t]
        IN  r.op \in RetryOps =>
               /\ r.pc = "throw" => proc # "crashed"
               /\ Count(r.log, "Throw") = r.nThrow
               /\ (r.pc = "ret" /\ r.error # 0) =>
                     /\ r.nThrow = 1
                     /\ r.pending.type = "android/system/ErrnoException"
                     /\ r.pending.code = r.error

\* C16: when the native call of fgetfilecon, getfilecon or lgetfilecon
\* succeeds and NewByteArray fails, newBytesFromString returns NULL and
\* raises nothing, the function returns that NULL without making or throwing
\* an ErrnoException, and the context the native library produced is still
\* released, with freecon and once.
C16_NullResultWhenArrayFails ==
    \A t \in Threads :
        LET r == th[t]
        IN  ( /\ r.op \in GetOps
              /\ r.pc = "ret"
              /\ r.error = 0
              /\ r.result = NullResult )
            => /\ r.rc >= 0
               /\ r.nThrow = 0
               /\ r.nClear = 0
               /\ \A x \in {"NewStringUTF", "NewObject2", "NewObject3", "Throw",
                            "ExceptionClear"} : Count(r.log, x) = 0
               /\ r.pending.type # "android/system/ErrnoException"
               /\ Count(r.log, "NewByteArray") = 1
               /\ Count(r.log, "freecon") = 1
               /\ r.context = Len(r.outb)
               /\ \A i \in 1..Len(r.outb) : r.outb[i][1] = "freecon"

\* C16 happens: lgetfilecon returns NULL after a native call that succeeded,
\* and the context is released
C16_Witness ==
    \E t \in Threads :
        /\ th[t].op = "lgetfilecon"
        /\ th[t].pc = "ret"
        /\ th[t].error = 0
        /\ th[t].result = NullResult
        /\ th[t].pending = OutOfMemory
        /\ th[t].outb = <<<<"freecon", <<2, 1, 0>>>>>>

\* C17: a cached field or constructor is resolved only after its class: in
\* every state, whatever the interleaving of threads at their first use, the
\* descriptor field is set only if the FileDescriptor class is, a
\* constructor is set only if the ErrnoException class is, and a thread that
\* looks up a member holds a non-null handle of the member's class.
C17_MemberAfterClass ==
    /\ cache["fileDescriptorDescriptorField"] # NULL => cache["fileDescriptorClass"] # NULL
    /\ \A c \in {"constructor3", "constructor2"} :
          cache[c] # NULL => cache["errnoExceptionClass"] # NULL
    /\ \A t \in Threads :
          /\ th[t].pc = "fld_find" =>
                ValidFor("fileDescriptorClass", th[t].hand["fileDescriptorClass"])
          /\ th[t].pc \in {"ctor3_find", "ctor2_find"} =>
                ValidFor("errnoExceptionClass", th[t].hand["errnoExceptionClass"])

\* C17 happens: both threads have looked up and stored the descriptor field
\* and a constructor, each after the class
C17_Witness ==
    /\ \A t \in Threads :
          /\ writes["fileDescriptorDescriptorField"][t] = 1
          /\ writes["constructor3"][t] = 1
    /\ cache["fileDescriptorClass"] # NULL
    /\ cache["errnoExceptionClass"] # NULL

\* C18: when an exception is pending at entry and the native call succeeds,
\* the same exception is pending when the function returns, nothing was
\* cleared from the slot and no ErrnoException was made; the exception
\* pending at entry is cleared, once, only where a new exception with it as
\* cause is raised.
C18_PendingKeptOnSuccess ==
    \A t \in Threads :
        LET r == th[t]
            h == r.hist
            succeeded == Len(h) > 0 /\ h[Len(h)][2] >= 0 /\ h[Len(h)][3] = 0
        IN  (r.op \in RetryOps /\ r.pc = "ret" /\ r.entry # NoExc) =>
               /\ succeeded =>
                     /\ r.pending = r.entry
                     /\ r.nClear = 0
                     /\ r.nThrow = 0
                     /\ \A x \in {"ExceptionClear", "NewObject2", "NewObject3"} :
                           Count(r.log, x) = 0
               /\ r.nClear <= 1
               /\ r.nClear = 1 =>
                     /\ r.pending.id = "new"
                     /\ r.pending.cause = r.entry.id

\* C19: where fgetfilecon, getfilecon and lgetfilecon find errno zero after
\* the retry loop, the context they give to newBytesFromString and to freecon
\* is a buffer the native library produced, never NULL: a native call that
\* returns -1 without setting errno does not make them take the length of,
\* or copy from, a null pointer.
C19_ContextNotNullOnSuccess ==
    \A t \in Threads :
        LET r == th[t]
        IN  (r.op \in GetOps /\ r.pc = "after") =>
               /\ proc # "crashed"
               /\ r.errno = 0 =>
                     /\ r.context \in 1..Len(r.outb)
                     /\ r.outb[r.context][1] = "live"

\* C20: mallocStringFromBytes never reads or writes through a null pointer:
\* when malloc of the length + 1 bytes fails, or GetByteArrayElements returns
\* NULL, nothing is copied into NULL, no terminator is stored in it and no
\* null string is given to the native function.
C20_MarshalingSurvivesNull ==
    \A t \in Threads :
        /\ th[t].pc = "prepare" => proc # "crashed"
        /\ th[t].pc \in {"retry", "call"} =>
              \A i \in 1..Len(Inputs(th[t].op)) :
                  th[t].inb[Inputs(th[t].op)[i]].st = "live"

====
